---- MODULE Spec2Model ----
(***************************************************************************)
(* Model of src/check.py: the WorkflowTester acceptance-test harness.      *)
(*                                                                         *)
(* One run of run_all_tests on a freshly constructed tester, as started by *)
(* the __main__ block.  The remote workflow service is the environment:    *)
(* every HTTP call draws its wire-level result from Wires.  The state is   *)
(* the tester's four fields, the program position, and what the run has    *)
(* made observable: the requests sent and the lines printed.               *)
(***************************************************************************)
EXTENDS Integers, Sequences, FiniteSets, TLC

VARIABLES
    pc,             \* position in run_all_tests / the test_* method being run
    definition_id,  \* self.definition_id
    instance_id,    \* self.instance_id
    passed,         \* self.passed
    failed,         \* self.failed
    reqs,           \* the HTTP requests issued so far, in order
    out,            \* the lines printed so far, in order
    wire,           \* what the service did with the latest request
    outcome,        \* the (success, response) pair request() returned for it
    summary         \* the summary block printed by run_all_tests, if any

vars == <<pc, definition_id, instance_id, passed, failed, reqs, out, wire,
          outcome, summary>>

----------------------------------------------------------------------------
(* Values *)

\* Python's None, as held by the two Optional[str] fields and returned by
\* dict.get for a missing key.  Identifier values are integers here.
None == -1

\* Largest identifier value the service hands out.
MaxId == 1

\* JSON values a service may put under "id": 0 is falsy in Python, the
\* others are truthy.  A JSON null (or no "id" key) reads as None.
IdValues == 0 .. MaxId

\* Final HTTP statuses: a 2xx, a 3xx that is not followed, a 4xx.
Statuses == {200, 304, 404}

\* A decoded JSON body, reduced to what the harness looks at.
\*   shape   : "map" for a JSON object, "list" for any other JSON value
\*   success : the value under "success" ("absent" when there is no such key)
\*   data    : what is under "data": "absent", "None" (JSON null), "list"
\*             (any non-object value) or "map" (an object)
\*   id      : for data = "map", the value under data["id"], None if missing
\*   error   : whether the mapping is the {"error": ...} built by request()
Payload(shape, success, data, id, error) ==
    [shape |-> shape, success |-> success, data |-> data, id |-> id,
     error |-> error]

EmptyMap == Payload("map", "absent", "absent", None, FALSE)
ListBody == Payload("list", "absent", "absent", None, FALSE)
ErrorMap == Payload("map", "absent", "absent", None, TRUE)

JsonBodies ==
    {ListBody}
    \cup {Payload("map", s, d, None, FALSE) :
            s \in {"absent", "True", "False"}, d \in {"absent", "None", "list"}}
    \cup {Payload("map", s, "map", i, FALSE) :
            s \in {"absent", "True", "False"}, i \in {None} \cup IdValues}

\* What the service (or the network) does with one request.
\*   kind : "fault"     the transport raised (refused, timeout, ...)
\*          "malformed" a response arrived whose text is not JSON
\*          "empty"     a response arrived with empty text
\*          "json"      a response arrived with JSON text, decoded as body
Wires ==
    {[kind |-> "fault", status |-> 0, body |-> EmptyMap]}
    \cup {[kind |-> "malformed", status |-> s, body |-> EmptyMap] : s \in Statuses}
    \cup {[kind |-> "empty", status |-> s, body |-> EmptyMap] : s \in Statuses}
    \cup {[kind |-> "json", status |-> s, body |-> b] :
            s \in Statuses, b \in JsonBodies}

NoWire == [kind |-> "none", status |-> 0, body |-> EmptyMap]
NoOutcome == [ok |-> FALSE, payload |-> EmptyMap]
\* The summary block: whether it was printed, the two numbers of the
\* Results line, the verdict of the Status line, and whether the
\* "N test(s) failed" line followed.
NoSummary == [printed |-> FALSE, results_passed |-> 0, results_total |-> 0,
              verdict |-> "none", failed_line |-> FALSE]

\* A request as sent: <<method, path template, identifier formatted into
\* the path, whether the path embeds an identifier, JSON body sent>>.
\* The f-string formats a None identifier as the text "None".
Req(method, path, id, data) == <<method, path, id, TRUE, data>>
StaticReq(method, path, data) == <<method, path, None, FALSE, data>>
ReqId(rq) == rq[3]
ReqEmbeds(rq) == rq[4]

----------------------------------------------------------------------------
(* request(): lines 24-31 *)

\* request() with a body that fails to decode read as an empty mapping
request_decode_swallowed(w) ==
    IF w.kind = "fault"
    THEN [ok |-> FALSE, payload |-> ErrorMap]
    ELSE [ok |-> w.status < 400,
          payload |-> IF w.kind = "json" THEN w.body ELSE EmptyMap]

request(w) ==
    IF w.kind \in {"fault", "malformed"}
    THEN [ok |-> FALSE, payload |-> ErrorMap]
    ELSE [ok |-> w.status < 400,
          payload |-> IF w.kind = "empty" THEN EmptyMap ELSE w.body]

\* Python truthiness of response.get('success')
Truthy(v) == v = "True"

\* response.get('success') raises AttributeError when response is no dict
GetRaises(p) == p.shape # "map"

\* success and response.get('success'): the right operand is evaluated only
\* when success is true
PositiveRaises(o) == o.ok /\ GetRaises(o.payload)
Positive(o) == o.ok /\ Truthy(o.payload.success)

\* not success or not response.get('success'): the right operand is
\* evaluated only when success is true
NegativeRaises(o) == o.ok /\ GetRaises(o.payload)
Negative(o) == ~o.ok \/ ~Truthy(o.payload.success)

\* response.get('data', {}).get('id'): raises when data is None or any
\* other non-dict value
CaptureRaises(p) == p.data \in {"None", "list"}
Capture(p) == IF p.data = "map" THEN p.id ELSE None

\* not self.definition_id / not self.instance_id
Falsy(id) == id = None \/ id = 0

----------------------------------------------------------------------------
(* test(): lines 14-22 *)

\* test() with the failure branch not counted
test_uncounted(name, condition) ==
    IF condition
    THEN /\ out' = Append(out, <<"ok", name>>)
         /\ passed' = passed + 1
         /\ failed' = failed
    ELSE /\ out' = Append(out, <<"fail", name>>)
         /\ UNCHANGED <<passed, failed>>

\* test() with the two counters taken for one another
test_swapped(name, condition) ==
    IF condition
    THEN /\ out' = Append(out, <<"ok", name>>)
         /\ failed' = failed + 1
         /\ passed' = passed
    ELSE /\ out' = Append(out, <<"fail", name>>)
         /\ passed' = passed + 1
         /\ failed' = failed

test(name, condition) ==
    IF condition
    THEN /\ out' = Append(out, <<"ok", name>>)
         /\ passed' = passed + 1
         /\ failed' = failed
    ELSE /\ out' = Append(out, <<"fail", name>>)
         /\ failed' = failed + 1
         /\ passed' = passed

Init ==
    /\ pc = "run_all_tests"
    /\ definition_id = None
    /\ instance_id = None
    /\ passed = 0
    /\ failed = 0
    /\ reqs = <<>>
    /\ out = <<>>
    /\ wire = NoWire
    /\ outcome = NoOutcome
    /\ summary = NoSummary

----------------------------------------------------------------------------
(* The scenario steps.  Each step is one request() call followed by the    *)
(* test() call on its outcome, as in the source; an AttributeError raised  *)
(* while the condition or the captured identifier is evaluated is not      *)
(* caught anywhere and ends the run (pc = "raised").                       *)

\* a positive step that repeats its request after a transport failure
PositiveStep_retry(here, next, rq, name) ==
    /\ pc = here
    /\ \E w \in Wires :
        LET o == request(w) IN
        /\ wire' = w
        /\ outcome' = o
        /\ reqs' = Append(reqs, rq)
        /\ IF PositiveRaises(o)
           THEN /\ pc' = "raised"
                /\ UNCHANGED <<passed, failed, out>>
           ELSE IF o.payload.error
           THEN /\ pc' = here
                /\ UNCHANGED <<passed, failed, out>>
           ELSE /\ test(name, Positive(o))
                /\ pc' = next
    /\ UNCHANGED <<definition_id, instance_id, summary>>

\* success, response = self.request(...); self.test(name, success and
\* response.get('success'))
PositiveStep(here, next, rq, name) ==
    /\ pc = here
    /\ \E w \in Wires :
        LET o == request(w) IN
        /\ wire' = w
        /\ outcome' = o
        /\ reqs' = Append(reqs, rq)
        /\ IF PositiveRaises(o)
           THEN /\ pc' = "raised"
                /\ UNCHANGED <<passed, failed, out>>
           ELSE /\ test(name, Positive(o))
                /\ pc' = next
    /\ UNCHANGED <<definition_id, instance_id, summary>>

\* success, response = self.request(...); self.test(name, not success or
\* not response.get('success'))
NegativeStep(here, next, rq, name) ==
    /\ pc = here
    /\ \E w \in Wires :
        LET o == request(w) IN
        /\ wire' = w
        /\ outcome' = o
        /\ reqs' = Append(reqs, rq)
        /\ IF NegativeRaises(o)
           THEN /\ pc' = "raised"
                /\ UNCHANGED <<passed, failed, out>>
           ELSE /\ test(name, Negative(o))
                /\ pc' = next
    /\ UNCHANGED <<definition_id, instance_id, summary>>

\* print of a group's heading, or of a notice
Say(here, next, line) ==
    /\ pc = here
    /\ out' = Append(out, line)
    /\ pc' = next
    /\ UNCHANGED <<definition_id, instance_id, passed, failed, reqs, wire,
                   outcome, summary>>

----------------------------------------------------------------------------
(* run_all_tests: lines 125-134 *)

run_all_tests_begin ==
    Say("run_all_tests", "probe", <<"suite", "Workflow Engine Test Suite">>)

run_all_tests_probe ==
    /\ pc = "probe"
    /\ \E w \in Wires :
        LET o == request(w) IN
        /\ wire' = w
        /\ outcome' = o
        /\ reqs' = Append(reqs, StaticReq("get", "/api/definitions", "none"))
        /\ test("Server connectivity", o.ok)
        /\ pc' = IF o.ok THEN "test_definitions" ELSE "unreachable"
    /\ UNCHANGED <<definition_id, instance_id, summary>>

\* the notice without the return of line 134
run_all_tests_unreachable_noreturn ==
    Say("unreachable", "test_definitions", <<"notice", "Server unreachable">>)

run_all_tests_unreachable ==
    Say("unreachable", "returned", <<"notice", "Server unreachable">>)

----------------------------------------------------------------------------
(* test_definitions: lines 33-61 *)

test_definitions_enter ==
    Say("test_definitions", "definitions_create", <<"group", "definitions">>)

\* the create step with line 53 run whatever test() returned
test_definitions_create_always_capture ==
    /\ pc = "definitions_create"
    /\ \E w \in Wires :
        LET o == request(w) IN
        /\ wire' = w
        /\ outcome' = o
        /\ reqs' = Append(reqs, StaticReq("post", "/api/definitions", "definition"))
        /\ IF PositiveRaises(o)
           THEN /\ pc' = "raised"
                /\ UNCHANGED <<passed, failed, out>>
           ELSE /\ test("Create definition", Positive(o))
                /\ pc' = "definitions_capture"
    /\ UNCHANGED <<definition_id, instance_id, summary>>

test_definitions_create ==
    /\ pc = "definitions_create"
    /\ \E w \in Wires :
        LET o == request(w) IN
        /\ wire' = w
        /\ outcome' = o
        /\ reqs' = Append(reqs, StaticReq("post", "/api/definitions", "definition"))
        /\ IF PositiveRaises(o)
           THEN /\ pc' = "raised"
                /\ UNCHANGED <<passed, failed, out>>
           ELSE /\ test("Create definition", Positive(o))
                /\ pc' = IF Positive(o) THEN "definitions_capture"
                         ELSE "definitions_get"
    /\ UNCHANGED <<definition_id, instance_id, summary>>

\* line 53, taken when test() returned a true condition
test_definitions_capture ==
    /\ pc = "definitions_capture"
    /\ IF CaptureRaises(outcome.payload)
       THEN pc' = "raised" /\ UNCHANGED definition_id
       ELSE pc' = "definitions_get"
            /\ definition_id' = Capture(outcome.payload)
    /\ UNCHANGED <<instance_id, passed, failed, reqs, out, wire, outcome,
                   summary>>

test_definitions_get ==
    PositiveStep("definitions_get", "definitions_list",
                 Req("get", "/api/definitions/{}", definition_id, "none"),
                 "Get definition")

test_definitions_list ==
    PositiveStep("definitions_list", "test_instances",
                 StaticReq("get", "/api/definitions", "none"),
                 "Get all definitions")

----------------------------------------------------------------------------
(* test_instances: lines 63-82 *)

\* the skip notice without the return of line 69
test_instances_enter_noreturn ==
    /\ pc = "test_instances"
    /\ IF Falsy(definition_id)
       THEN out' = out \o << <<"group", "instances">>, <<"skip", "instances">> >>
       ELSE out' = Append(out, <<"group", "instances">>)
    /\ pc' = "instances_start"
    /\ UNCHANGED <<definition_id, instance_id, passed, failed, reqs, wire,
                   outcome, summary>>

test_instances_enter ==
    /\ pc = "test_instances"
    /\ IF Falsy(definition_id)
       THEN /\ out' = out \o << <<"group", "instances">>, <<"skip", "instances">> >>
            /\ pc' = "test_actions"
       ELSE /\ out' = Append(out, <<"group", "instances">>)
            /\ pc' = "instances_start"
    /\ UNCHANGED <<definition_id, instance_id, passed, failed, reqs, wire,
                   outcome, summary>>

test_instances_start ==
    /\ pc = "instances_start"
    /\ \E w \in Wires :
        LET o == request(w) IN
        /\ wire' = w
        /\ outcome' = o
        /\ reqs' = Append(reqs, Req("post", "/api/instances/{}", definition_id, "none"))
        /\ IF PositiveRaises(o)
           THEN /\ pc' = "raised"
                /\ UNCHANGED <<passed, failed, out>>
           ELSE /\ test("Start instance", Positive(o))
                /\ pc' = IF Positive(o) THEN "instances_capture"
                         ELSE "instances_get"
    /\ UNCHANGED <<definition_id, instance_id, summary>>

\* line 74, taken when test() returned a true condition
test_instances_capture ==
    /\ pc = "instances_capture"
    /\ IF CaptureRaises(outcome.payload)
       THEN pc' = "raised" /\ UNCHANGED instance_id
       ELSE pc' = "instances_get"
            /\ instance_id' = Capture(outcome.payload)
    /\ UNCHANGED <<definition_id, passed, failed, reqs, out, wire, outcome,
                   summary>>

test_instances_get ==
    PositiveStep("instances_get", "instances_list",
                 Req("get", "/api/instances/{}", instance_id, "none"),
                 "Get instance")

test_instances_list ==
    PositiveStep("instances_list", "test_actions",
                 StaticReq("get", "/api/instances", "none"),
                 "Get all instances")

----------------------------------------------------------------------------
(* test_actions: lines 84-102 *)

\* the skip notice without the return of line 90
test_actions_enter_noreturn ==
    /\ pc = "test_actions"
    /\ IF Falsy(instance_id)
       THEN out' = out \o << <<"group", "actions">>, <<"skip", "actions">> >>
       ELSE out' = Append(out, <<"group", "actions">>)
    /\ pc' = "actions_approve"
    /\ UNCHANGED <<definition_id, instance_id, passed, failed, reqs, wire,
                   outcome, summary>>

test_actions_enter ==
    /\ pc = "test_actions"
    /\ IF Falsy(instance_id)
       THEN /\ out' = out \o << <<"group", "actions">>, <<"skip", "actions">> >>
            /\ pc' = "test_validation"
       ELSE /\ out' = Append(out, <<"group", "actions">>)
            /\ pc' = "actions_approve"
    /\ UNCHANGED <<definition_id, instance_id, passed, failed, reqs, wire,
                   outcome, summary>>

test_actions_approve ==
    PositiveStep("actions_approve", "actions_complete",
                 Req("post", "/api/instances/{}/actions", instance_id, "approve"),
                 "Execute approve action")

test_actions_complete ==
    PositiveStep("actions_complete", "actions_invalid",
                 Req("post", "/api/instances/{}/actions", instance_id, "complete"),
                 "Execute complete action")

test_actions_invalid ==
    NegativeStep("actions_invalid", "test_validation",
                 Req("post", "/api/instances/{}/actions", instance_id, "invalid"),
                 "Reject invalid action")

----------------------------------------------------------------------------
(* test_validation: lines 104-123 *)

test_validation_enter ==
    Say("test_validation", "validation_definition", <<"group", "validation">>)

test_validation_definition ==
    NegativeStep("validation_definition", "validation_get_definition",
                 StaticReq("post", "/api/definitions", "invalid_def"),
                 "Reject invalid definition")

test_validation_get_definition ==
    NegativeStep("validation_get_definition", "validation_get_instance",
                 StaticReq("get", "/api/definitions/nonexistent", "none"),
                 "Handle non-existent definition")

test_validation_get_instance ==
    NegativeStep("validation_get_instance", "summary",
                 StaticReq("get", "/api/instances/nonexistent", "none"),
                 "Handle non-existent instance")

----------------------------------------------------------------------------
(* run_all_tests: the summary, lines 142-151.  The success rate is only    *)
(* printed; the summary records the operands of its computation.           *)

\* the summary with the verdict taken from the pass counter
run_all_tests_summary_by_passed ==
    /\ pc = "summary"
    /\ LET total == passed + failed IN
       summary' = [printed |-> TRUE, results_passed |-> passed,
                   results_total |-> total,
                   verdict |-> IF passed > 0 THEN "PASS" ELSE "FAIL",
                   failed_line |-> failed > 0]
    /\ pc' = "returned"
    /\ UNCHANGED <<definition_id, instance_id, passed, failed, reqs, out, wire,
                   outcome>>

run_all_tests_summary ==
    /\ pc = "summary"
    /\ LET total == passed + failed IN
       summary' = [printed |-> TRUE, results_passed |-> passed,
                   results_total |-> total,
                   verdict |-> IF failed = 0 THEN "PASS" ELSE "FAIL",
                   failed_line |-> failed > 0]
    /\ pc' = "returned"
    /\ UNCHANGED <<definition_id, instance_id, passed, failed, reqs, out, wire,
                   outcome>>

Next ==
    \/ run_all_tests_begin
    \/ run_all_tests_probe
    \/ run_all_tests_unreachable
    \/ test_definitions_enter
    \/ test_definitions_create
    \/ test_definitions_capture
    \/ test_definitions_get
    \/ test_definitions_list
    \/ test_instances_enter
    \/ test_instances_start
    \/ test_instances_capture
    \/ test_instances_get
    \/ test_instances_list
    \/ test_actions_enter
    \/ test_actions_approve
    \/ test_actions_complete
    \/ test_actions_invalid
    \/ test_validation_enter
    \/ test_validation_definition
    \/ test_validation_get_definition
    \/ test_validation_get_instance
    \/ run_all_tests_summary

Spec == Init /\ [][Next]_vars

----------------------------------------------------------------------------
(* What a run has made observable *)

IsAssertion(line) == line[1] \in {"ok", "fail"}
Assertions(lines) == Len(SelectSeq(lines, IsAssertion))

IsGroup(line) == line[1] = "group"
Groups(lines) == SelectSeq(lines, IsGroup)

Printed(line) == \E i \in DOMAIN out : out[i] = line

ProbeFailed == Printed(<<"fail", "Server connectivity">>)
ProbeSucceeded == Printed(<<"ok", "Server connectivity">>)

\* the run is over: run_all_tests returned, or an exception left it
Ended == pc \in {"returned", "raised"}

----------------------------------------------------------------------------
(* C1: a group entered without its identifier is silent.  When Instances   *)
(* is entered with no definition identifier, or Actions with no instance   *)
(* identifier, the group is over in that step: no request is issued, no    *)
(* assertion is recorded, both counters and both identifiers are unchanged.*)
C1_SkippedGroupIsSilent ==
    [][ (\/ pc = "test_instances" /\ definition_id = None
         \/ pc = "test_actions" /\ instance_id = None)
        => /\ pc' = IF pc = "test_instances" THEN "test_actions"
                    ELSE "test_validation"
           /\ reqs' = reqs
           /\ Assertions(out') = Assertions(out)
           /\ passed' = passed
           /\ failed' = failed
           /\ definition_id' = definition_id
           /\ instance_id' = instance_id ]_vars

C1_Witness ==
    /\ pc = "test_validation"
    /\ definition_id = None
    /\ instance_id = None
    /\ Printed(<<"skip", "instances">>)
    /\ Printed(<<"skip", "actions">>)

(* C2: no request is ever sent whose path embeds a null identifier.        *)
C2_NoNullIdRequest ==
    \A i \in DOMAIN reqs : ReqEmbeds(reqs[i]) => ReqId(reqs[i]) # None

(* C3: a failed connectivity probe aborts the run: one request issued, one *)
(* assertion recorded and it is a failure, no group entered.               *)
C3_ProbeFailureAborts ==
    ProbeFailed =>
        /\ pc \in {"unreachable", "returned"}
        /\ Len(reqs) = 1
        /\ Assertions(out) = 1
        /\ passed = 0
        /\ failed = 1
        /\ Groups(out) = <<>>

C3_Witness ==
    /\ ProbeFailed
    /\ pc = "returned"
    /\ Printed(<<"notice", "Server unreachable">>)

(* C4: a run whose connectivity probe failed ends having printed the       *)
(* overall verdict, and the verdict is FAIL.                               *)
C4_AbortReportsFail ==
    (ProbeFailed /\ pc = "returned") => summary.verdict = "FAIL"

(* C5: once the probe has succeeded no outcome of a later call is fatal:   *)
(* the run is never left by an exception.                                  *)
C5_NothingFatalAfterProbe ==
    ProbeSucceeded => pc # "raised"

(* C6: passed + failed always equals the number of assertions recorded,    *)
(* and no step lowers either counter.                                      *)
C6_Counters ==
    /\ [](passed + failed = Assertions(out))
    /\ [][passed' >= passed /\ failed' >= failed]_vars

C6_Witness ==
    /\ pc = "returned"
    /\ passed > 0
    /\ failed > 0
    /\ summary.printed

(* C7: when the probe succeeds the four groups are entered in the order    *)
(* definitions, instances, actions, validation, each exactly once.         *)
C7_GroupsInOrderOnce ==
    (ProbeSucceeded /\ Ended) =>
        Groups(out) = << <<"group", "definitions">>, <<"group", "instances">>,
                         <<"group", "actions">>, <<"group", "validation">> >>

(* C8: in the Definitions group, with no definition identifier captured,   *)
(* the fetch-by-identifier step sends no request and records no assertion. *)
C8_GetDefinitionSkipped ==
    [][ (pc = "definitions_get" /\ definition_id = None)
        => (reqs' = reqs /\ Assertions(out') = Assertions(out)) ]_vars

\* the requests and assertion names of test_validation
ValidationRequests ==
    {StaticReq("post", "/api/definitions", "invalid_def"),
     StaticReq("get", "/api/definitions/nonexistent", "none"),
     StaticReq("get", "/api/instances/nonexistent", "none")}
ValidationNames ==
    {"Reject invalid definition", "Handle non-existent definition",
     "Handle non-existent instance"}
IsValidationRequest(rq) == rq \in ValidationRequests
IsValidationAssertion(line) == IsAssertion(line) /\ line[2] \in ValidationNames

(* C9: whenever the probe succeeds, the Validation group issues exactly    *)
(* three requests and records exactly three assertions.                    *)
C9_ValidationAlwaysThree ==
    (ProbeSucceeded /\ Ended) =>
        /\ Len(SelectSeq(reqs, IsValidationRequest)) = 3
        /\ Len(SelectSeq(out, IsValidationAssertion)) = 3

\* the steps asserting a rejection, and what counts as one
NegativeSteps ==
    {"actions_invalid", "validation_definition", "validation_get_definition",
     "validation_get_instance"}
SuccessIndicator(w) ==
    IF w.kind = "json" /\ w.body.shape = "map" THEN w.body.success ELSE "absent"
Rejection(w) ==
    \/ w.kind \in {"fault", "malformed"}
    \/ w.status \notin 200 .. 299
    \/ SuccessIndicator(w) # "True"

(* C10: a negative-path assertion passes exactly when the call was         *)
(* rejected (transport failure, non-2xx status, or a 2xx response whose    *)
(* success indicator is false or absent) and fails exactly when the        *)
(* response is 2xx with a true success indicator.                          *)
C10_NegativePassIffRejected ==
    [][ (pc \in NegativeSteps)
        => /\ ((passed' = passed + 1) <=> Rejection(wire'))
           /\ ((failed' = failed + 1) <=> ~Rejection(wire')) ]_vars

\* a response arrived and its text decoded (or was empty)
TransportSucceeded(w) == w.kind \in {"empty", "json"}

(* C11: for every call of request(): ok is true exactly when the transport *)
(* succeeded and the status is below 400; a transport-level failure yields *)
(* (False, {"error": ...}) and the run goes on; the call changes neither   *)
(* identifier, and the counters move only by the assertion recorded on the *)
(* call's outcome.                                                         *)
C11_RequestExecutor ==
    [][ (reqs' # reqs)
        => /\ Len(reqs') = Len(reqs) + 1
           /\ outcome'.ok <=> (TransportSucceeded(wire') /\ wire'.status < 400)
           /\ ~TransportSucceeded(wire')
                => (outcome' = [ok |-> FALSE, payload |-> ErrorMap]
                    /\ pc' # "raised")
           /\ definition_id' = definition_id
           /\ instance_id' = instance_id
           /\ (passed' + failed') - (passed + failed)
                = Assertions(out') - Assertions(out) ]_vars

C11_Witness ==
    /\ wire.kind = "fault"
    /\ outcome = [ok |-> FALSE, payload |-> ErrorMap]
    /\ pc = "definitions_list"
    /\ definition_id # None

\* the condition the step at position p hands to test(), given the outcome
\* o of its request
GivenCondition(p, o) ==
    IF p = "probe" THEN o.ok
    ELSE IF p \in NegativeSteps THEN Negative(o)
    ELSE Positive(o)

\* the steps that branch on the value test() returns, and the position
\* reached when it is true
BranchOnTrue(p) ==
    CASE p = "probe" -> "test_definitions"
      [] p = "definitions_create" -> "definitions_capture"
      [] p = "instances_start" -> "instances_capture"
      [] OTHER -> "none"

(* C12: each call of test() changes exactly one counter by exactly one:    *)
(* passed on a true condition, failed on a false one, the other counter    *)
(* and both identifiers unchanged; the value returned is the condition, so *)
(* the caller's branch on it is taken exactly when the condition is true.  *)
C12_AssertionRecorder ==
    [][ (Assertions(out') # Assertions(out))
        => /\ Assertions(out') = Assertions(out) + 1
           /\ IF GivenCondition(pc, outcome')
              THEN passed' = passed + 1 /\ failed' = failed
              ELSE failed' = failed + 1 /\ passed' = passed
           /\ definition_id' = definition_id
           /\ instance_id' = instance_id
           /\ BranchOnTrue(pc) # "none"
                => (pc' = BranchOnTrue(pc) <=> GivenCondition(pc, outcome')) ]_vars

C12_Witness ==
    /\ pc = "instances_capture"
    /\ passed >= 2
    /\ failed >= 1

\* some recorded assertion failed
AnyFailure == \E i \in DOMAIN out : out[i][1] = "fail"

(* C13: once the summary is printed the verdict is FAIL exactly when the   *)
(* fail counter is above 0, PASS exactly when every recorded assertion     *)
(* passed, and the total reported is passed + failed.                      *)
C13_Verdict ==
    summary.printed =>
        /\ summary.verdict \in {"PASS", "FAIL"}
        /\ summary.verdict = "FAIL" <=> failed > 0
        /\ summary.verdict = "PASS" <=> ~AnyFailure
        /\ summary.results_total = passed + failed
        /\ summary.results_total = Assertions(out)
        /\ summary.results_passed = passed

C13_Witness ==
    /\ summary.printed
    /\ summary.verdict = "PASS"
    /\ Printed(<<"skip", "instances">>)
    /\ Printed(<<"skip", "actions">>)

\* an execute-action request
IsActionRequest(rq) == rq[2] = "/api/instances/{}/actions"
ActionRequests == SelectSeq(reqs, IsActionRequest)

(* C14: an identifier is captured only from a creation call whose          *)
(* assertion passed: a non-null definition identifier implies that 'Create *)
(* definition' passed, a non-null instance identifier implies that 'Start  *)
(* instance' passed and that the definition identifier is non-null, and an *)
(* action request is issued only after both creation assertions passed.    *)
C14_CaptureOnlyOnPass ==
    /\ definition_id # None => Printed(<<"ok", "Create definition">>)
    /\ instance_id # None => Printed(<<"ok", "Start instance">>)
    /\ instance_id # None => definition_id # None
    /\ ActionRequests # <<>>
         => (Printed(<<"ok", "Create definition">>)
             /\ Printed(<<"ok", "Start instance">>))

C14_Witness ==
    /\ pc = "actions_complete"
    /\ instance_id # None
    /\ definition_id # None
    /\ Len(ActionRequests) = 1

\* the Actions group was entered and not skipped
ActionsRan == Printed(<<"group", "actions">>) /\ ~Printed(<<"skip", "actions">>)

(* C15: when the Actions group runs it issues exactly three execute-action *)
(* requests against the captured instance identifier, in the order         *)
(* approve, complete, unregistered action, each later one whatever the     *)
(* outcome of the earlier ones, and records an assertion on each.          *)
C15_ActionsThreeRequests ==
    (Ended /\ ActionsRan) =>
        /\ ActionRequests =
             << Req("post", "/api/instances/{}/actions", instance_id, "approve"),
                Req("post", "/api/instances/{}/actions", instance_id, "complete"),
                Req("post", "/api/instances/{}/actions", instance_id, "invalid") >>
        /\ \E a, b, c \in {"ok", "fail"} :
             /\ Printed(<<a, "Execute approve action">>)
             /\ Printed(<<b, "Execute complete action">>)
             /\ Printed(<<c, "Reject invalid action">>)

\* the program positions in source order
Positions ==
    << "run_all_tests", "probe", "unreachable",
       "test_definitions", "definitions_create", "definitions_capture",
       "definitions_get", "definitions_list",
       "test_instances", "instances_start", "instances_capture",
       "instances_get", "instances_list",
       "test_actions", "actions_approve", "actions_complete", "actions_invalid",
       "test_validation", "validation_definition", "validation_get_definition",
       "validation_get_instance",
       "summary", "returned", "raised" >>
Rank(p) == CHOOSE i \in DOMAIN Positions : Positions[i] = p

(* C16: no call is retried: every step issues at most one request and is   *)
(* followed by a later position, never by itself or an earlier one, also   *)
(* after a failed call; a run issues at most 13 requests.                  *)
C16_NoRetry ==
    /\ [](Len(reqs) <= 1 + 4 * 3)
    /\ [][ /\ Len(reqs') <= Len(reqs) + 1
           /\ Rank(pc') > Rank(pc) ]_vars

C16_Witness ==
    /\ pc = "returned"
    /\ Len(reqs) = 1 + 4 * 3
    /\ wire.kind = "fault"
    /\ Printed(<<"fail", "Execute approve action">>)

----------------------------------------------------------------------------
(* A second call of run_all_tests on the same tester object.  The method   *)
(* assigns none of the four fields before the probe (lines 125-131), so    *)
(* they keep the values the previous call left; the locals of the previous *)
(* call are gone.  Explored after first runs of at most MaxRerunRequests   *)
(* requests, and for at most MaxRuns calls.                                *)

MaxRuns == 2
MaxRerunRequests == 1

IsSuite(line) == line[1] = "suite"
Runs == Len(SelectSeq(out, IsSuite))

run_all_tests_again ==
    /\ pc = "returned"
    /\ Runs < MaxRuns
    /\ Len(reqs) <= MaxRerunRequests
    /\ pc' = "run_all_tests"
    /\ wire' = NoWire
    /\ outcome' = NoOutcome
    /\ UNCHANGED <<definition_id, instance_id, passed, failed, reqs, out,
                   summary>>

NextAgain == Next \/ run_all_tests_again

SpecAgain == Init /\ [][NextAgain]_vars

(* C17: every run starts from a fresh Run State: at the start of every     *)
(* call of run_all_tests, a second call on the same tester included, both  *)
(* identifiers are null and both counters are zero.                        *)
C17_EveryRunStartsFresh ==
    pc = "run_all_tests" =>
        /\ definition_id = None
        /\ instance_id = None
        /\ passed = 0
        /\ failed = 0

----------------------------------------------------------------------------
(* C18: requests and assertions are paired one to one: at every step       *)
(* boundary the number of assertions recorded equals the number of         *)
(* requests issued.                                                        *)
C18_RequestsPairedWithAssertions ==
    /\ Assertions(out) = Len(reqs)
    /\ passed + failed = Len(reqs)

InstancesSkipped == Printed(<<"skip", "instances">>)
ActionsSkipped == Printed(<<"skip", "actions">>)

(* C19: a run of a fresh tester that reaches the summary has recorded 7,   *)
(* 10 or 13 assertions: 7 when Instances and Actions are both skipped, 10  *)
(* when only Actions is, 13 when neither is; Actions never runs when       *)
(* Instances was skipped; the total is never 0 at the summary.             *)
C19_TotalsAtSummary ==
    /\ (InstancesSkipped /\ Printed(<<"group", "actions">>)) => ActionsSkipped
    /\ summary.printed =>
        /\ summary.results_total \in {7, 10, 13}
        /\ summary.results_total = 7 <=> (InstancesSkipped /\ ActionsSkipped)
        /\ summary.results_total = 10 <=> (~InstancesSkipped /\ ActionsSkipped)
        /\ summary.results_total = 13 <=> (~InstancesSkipped /\ ~ActionsSkipped)
        /\ summary.results_total > 0
        /\ summary.results_total = Assertions(out)

C19_Witness ==
    /\ summary.printed
    /\ summary.results_total = 10
    /\ ~InstancesSkipped
    /\ ActionsSkipped

====
